---- MODULE Spec2Model ----
(***************************************************************************)
(* CNC spot welder controller FSM (src/goodEnough/functions.cpp).          *)
(*                                                                         *)
(* One step of the model is one call of fsmUpdate(), except for the        *)
(* blocking autoHome(): each iteration of one of its while loops is a step *)
(* of its own, and the handleAutoMenu() call that follows it in the same   *)
(* fsmUpdate() is the step taken when autoHome() has returned.             *)
(*                                                                         *)
(* Inputs (button level, encoder count, limit switch levels) are sampled   *)
(* by the code with digitalRead() / myEnc.read(); the model draws each     *)
(* sample with \E at the place the code reads it.  The encoder is read     *)
(* once per step: the reads of one handler call are microseconds apart.    *)
(*                                                                         *)
(* Spec is the whole FSM.  JogSpec is manual mode alone, with the encoder  *)
(* turned further per call than in Spec.  UnitSpec applies                 *)
(* buttonPressedEdge() and the row selectors to inputs of their own.       *)
(***************************************************************************)
EXTENDS Integers, Sequences, FiniteSets, TLC

(* ------------------------------ bounds -------------------------------- *)

\* raw encoder counts the environment presents to a handler with n rows (or
\* n directions): from EncRawBelow under zero to EncRawSlack over the n-th detent
EncRawBelow == 2
EncRawSlack == 1
\* library steps a motor makes between two observations of run()
RunStride == 250
\* positions are tracked inside -MaxTravel..MaxTravel
MaxTravel == 1000
\* homing runs counted per stay in the auto menu (the count saturates)
MaxHomeRuns == 2
\* "Back" choices that cross a column boundary, per automatic run
MaxCrossBack == 1
\* "Exit" is chosen only at the first MaxExitCell cells of the grid, and a
\* run started after a jog session stays inside these cells
MaxExitCell == 1
\* jog steps (steps of a jog handler with a non-zero encoder delta)
MaxJogMoves == 1
\* button samples fed to buttonPressedEdge() when it is exercised on its own
MaxSamples == 6
\* menu lengths and encoder deltas fed to the row selector on its own
MaxUnitRows == 4
MaxUnitDelta == 2
\* jog sessions on their own (JogSpec): the encoder is read at the counts 0,
\* 1 and JogReach (for Z at 0, 1, -JogReachZ and JogReachZ), and the operator
\* makes at most MaxSessionMoves jog steps
JogReach == 3
JogReachZ == 100
MaxSessionMoves == 2

(* ------------------------- program constants -------------------------- *)

\* grid shape (AUTO_NUM_X, AUTO_NUM_Y: used at functions.cpp:290,324,408)
AUTO_NUM_X == 3
AUTO_NUM_Y == 6
\* jog step per detent (JOG_STEP_X, JOG_STEP_Y: used at functions.cpp:505,546)
JOG_STEP_X == 100
JOG_STEP_Y == 100
\* Y_MOVE is 107.8 (functions.h:32), kept in tenths
Y_MOVE_TENTHS == 1078
\* autoHome() speeds and back-off distances
Y_SEEK_SPEED == -500
X_SEEK_SPEED == 1000
X_BACKOFF == -300
Y_BACKOFF == 250
\* handleAutoRun(): relative X move per column, probe angles
X_COLUMN_MOVE == -500
PROBE_DOWN == 135
PROBE_UP == 90
\* handleJogZ(): neutral angle and constrain() limits
Z_NEUTRAL == 90
Z_MIN == 0
Z_MAX == 180
\* encoder counts per detent (myEnc.read() / 4)
ENC_DIV == 4

(* ------------------------------ helpers ------------------------------- *)

Abs(n) == IF n < 0 THEN -n ELSE n
Sign(n) == IF n > 0 THEN 1 ELSE IF n < 0 THEN -1 ELSE 0
Min(a, b) == IF a < b THEN a ELSE b
Max(a, b) == IF a > b THEN a ELSE b

\* C++ integer division truncates toward zero
TruncDiv(a, b) == IF a >= 0 THEN a \div b ELSE -((-a) \div b)

\* the raw counts the encoder is read at while a handler with n rows runs:
\* the knob is turned no further than the handler's last row
EncRaw(n) == (-EncRawBelow)..(ENC_DIV * (n - 1) + EncRawSlack)

\* myEnc.read() / 4
EncCount(raw) == TruncDiv(raw, ENC_DIV)

\* the values of myEnc.read() / 4 a handler with n rows can read
Counts(n) == {EncCount(raw) : raw \in EncRaw(n)}

\* digitalRead() levels
Levels == {"LOW", "HIGH"}

\* String(n) for the grid indices shown on the display
IntStr(n) ==
    CASE n = 0 -> "0" [] n = 1 -> "1" [] n = 2 -> "2" [] n = 3 -> "3"
      [] n = 4 -> "4" [] n = 5 -> "5" [] n = 6 -> "6" [] OTHER -> "?"

(* --------------------------- motion driver ---------------------------- *)
(* AccelStepper as the code uses it: a current position and a target.     *)

NewMotor == [pos |-> 0, target |-> 0]

move(m, rel) == [m EXCEPT !.target = m.pos + rel]

moveTo(m, abs) == [m EXCEPT !.target = abs]

distanceToGo(m) == m.target - m.pos

currentPosition(m) == m.pos

setCurrentPosition(m, p) == [pos |-> p, target |-> p]

\* run(): step toward the target; observed every RunStride library steps
run(m) ==
    [m EXCEPT !.pos = m.pos + Sign(distanceToGo(m)) * Min(RunStride, Abs(distanceToGo(m)))]

\* runSpeed() after setSpeed(speed): constant-speed motion, target ignored;
\* one observation per second of motion, tracked inside the travel bound
runSpeed(m, speed) ==
    [m EXCEPT !.pos = Max(-MaxTravel, Min(MaxTravel, m.pos + speed))]

(* --------------------------- display driver --------------------------- *)

BlankRows == <<"", "", "", "">>

NewLcd == [rows |-> BlankRows, col |-> 0, row |-> 0, blink |-> FALSE]

lcdClear(l) == [l EXCEPT !.rows = BlankRows, !.col = 0, !.row = 0]

lcdSetCursor(l, c, r) == [l EXCEPT !.col = c, !.row = r]

\* lcdPrintLine(row, msg): blank the row, print msg from column 0
lcdPrintLine(l, r, msg) ==
    [l EXCEPT !.rows[r + 1] = msg, !.col = Len(msg), !.row = r]

lcdBlink(l) == [l EXCEPT !.blink = TRUE]

lcdNoBlink(l) == [l EXCEPT !.blink = FALSE]

(* ------------------------------- state -------------------------------- *)

VARIABLES
    gState,         \* MachineState
    gLastEncCount,  \* encoder snapshot shared by the menus and X/Y jog
    last,           \* buttonPressedEdge(): last sampled button state
    mainMenu,       \* handleMainMenu statics   [initialized, row]
    autoMenu,       \* handleAutoMenu statics   [initialized, row]
    manualMenu,     \* handleManualMenu statics [initialized, row]
    autoState,      \* handleAutoRun: AutoState
    xIndex, yIndex, \* handleAutoRun: grid cell
    menuRow,        \* handleAutoRun: decision menu row
    lastEnc,        \* handleAutoRun: decision menu encoder baseline
    jogX,           \* handleJogX statics [initialized, targetPos]
    jogY,           \* handleJogY statics [initialized, targetPos]
    jogZ,           \* handleJogZ statics [initialized, lastCount, angle]
    motorX1, motorX2, motorY,
    servo,          \* last angle written to the servo (<<>> before the first)
    lcd,
    pc,             \* where fsmUpdate() is: "loop" between calls, else inside autoHome()
    obs,            \* what the last step observed and commanded
    hist,           \* history of the current homing / automatic run
    unit            \* a function exercised on its own (UnitSpec); unused by the FSM

vars == <<gState, gLastEncCount, last, mainMenu, autoMenu, manualMenu,
          autoState, xIndex, yIndex, menuRow, lastEnc, jogX, jogY, jogZ,
          motorX1, motorX2, motorY, servo, lcd, pc, obs, hist, unit>>

menuVars == <<mainMenu, autoMenu, manualMenu>>
autoVars == <<autoState, xIndex, yIndex, menuRow, lastEnc>>
jogVars == <<jogX, jogY, jogZ>>
motorVars == <<motorX1, motorX2, motorY>>

\* obs: cmds = the driver commands the step issued; limit = the limit switch
\* level the step read ("" when none); choice = the decision menu option the
\* step executed, or "complete" when it ended the run at the end of the grid.
NoObs == [cmds |-> {}, limit |-> "", choice |-> ""]

\* hist: homed = autoHome() has returned since Mode last was MainMenu;
\* homeRuns = autoHome() calls since Mode became AutoMenu; sawLow = limit
\* switches read LOW in the current autoHome() call; visited = the cells at
\* which the decision menu was entered in this run while every choice was
\* Continue (allCont); crossBacks = column-crossing Back choices of the run;
\* jogMoves = jog steps made; jogged = a jog state has been entered; auto =
\* the auto menu has been entered; jogSeed, jogBase, jogSat = the history of
\* the jog session under way (JogHist).
\*
\* The operator is bounded: a jog state is entered only before the first
\* entry into the auto menu, at most MaxJogMoves jog steps are made, Exit is
\* chosen only at the first MaxExitCell cells, a run started after a jog
\* session stays inside these cells, and Back crosses a column boundary at
\* most MaxCrossBack times per run.
NewHist == [homed |-> FALSE, homeRuns |-> 0, sawLow |-> {}, visited |-> <<>>,
            allCont |-> FALSE, crossBacks |-> 0, jogMoves |-> 0,
            jogged |-> FALSE, auto |-> FALSE,
            jogSeed |-> 0, jogBase |-> 0, jogSat |-> FALSE]

\* unit: fn = the function exercised ("" in the FSM specifications); samples,
\* edges = the button levels fed to buttonPressedEdge() and what it returned;
\* row, maxRows, delta = the arguments of a row selection, result = the row
\* it returned once done.
NoUnit == [fn |-> "", samples |-> <<>>, edges |-> <<>>,
           row |-> 0, maxRows |-> 0, delta |-> 0, result |-> 0, done |-> FALSE]

\* the program's state after the static initialisers and fsmInit()
InitState ==
    /\ gState = "MAIN_MENU"
    /\ gLastEncCount = 0
    /\ last = FALSE
    /\ mainMenu = [initialized |-> FALSE, row |-> 0]
    /\ autoMenu = [initialized |-> FALSE, row |-> 0]
    /\ manualMenu = [initialized |-> FALSE, row |-> 0]
    /\ autoState = "AUTO_IDLE"
    /\ xIndex = 0
    /\ yIndex = 0
    /\ menuRow = 0
    /\ lastEnc = 0
    /\ jogX = [initialized |-> FALSE, targetPos |-> 0]
    /\ jogY = [initialized |-> FALSE, targetPos |-> 0]
    /\ jogZ = [initialized |-> FALSE, lastCount |-> 0, angle |-> Z_NEUTRAL]
    /\ motorX1 = NewMotor
    /\ motorX2 = NewMotor
    /\ motorY = NewMotor
    /\ servo = <<>>
    /\ lcd = NewLcd
    /\ pc = "loop"
    /\ obs = NoObs
    /\ hist = NewHist

Init == InitState /\ unit = NoUnit

(* ------------------------- input edge tracker ------------------------- *)

\* bool now = (digitalRead(BUTTON_PIN) == LOW)
Pressed(level) == level = "LOW"

\* mutant: level-triggered, the last sample is ignored
buttonPressedEdge_Level(lastState, level) == Pressed(level)

\* mutant: the falling edge is reported
buttonPressedEdge_Falling(lastState, level) == lastState /\ ~Pressed(level)

\* mutant: the test of last is inverted, a held button keeps reporting
buttonPressedEdge_Held(lastState, level) == lastState /\ Pressed(level)

\* bool edge = (!last && now)
buttonPressedEdge(lastState, level) == ~lastState /\ Pressed(level)

(* -------------------------- menu row selector ------------------------- *)

\* mutant: the selection wraps around at both ends
updateMenuRow_Wraps(currentRow, maxRows, delta) ==
    IF delta > 0 THEN (currentRow + 1) % maxRows
    ELSE IF delta < 0 THEN (currentRow + maxRows - 1) % maxRows
    ELSE currentRow

updateMenuRow(currentRow, maxRows, delta) ==
    IF delta > 0 /\ currentRow < maxRows - 1 THEN currentRow + 1
    ELSE IF delta < 0 /\ currentRow > 0 THEN currentRow - 1
    ELSE currentRow

(* ------------------------------ menus --------------------------------- *)

\* The uniform menu protocol of handleMainMenu / handleAutoMenu /
\* handleManualMenu: labels |-> the rows printed on entry.
\* Returns the handler's statics, the display, the baseline and the delta.
MenuStep(m, labels, count) ==
    LET init == ~m.initialized
        l0 == IF init
              THEN lcdBlink(lcdSetCursor(
                     IF Len(labels) = 4
                     THEN lcdPrintLine(lcdPrintLine(lcdPrintLine(lcdPrintLine(
                            lcdClear(lcd), 0, labels[1]), 1, labels[2]), 2, labels[3]), 3, labels[4])
                     ELSE lcdPrintLine(lcdPrintLine(
                            lcdClear(lcd), 0, labels[1]), 1, labels[2]), 0, 0))
              ELSE lcd
        row0 == IF init THEN 0 ELSE m.row
        base == IF init THEN count ELSE gLastEncCount
        delta == count - base
        newRow == updateMenuRow(row0, Len(labels), delta)
        l1 == IF newRow # row0 THEN lcdSetCursor(l0, 0, newRow) ELSE l0
    IN [row |-> newRow, lcd |-> l1, delta |-> delta,
        cmds |-> (IF init THEN {"lcd.clear", "lcd.print", "lcd.setCursor", "lcd.blink"} ELSE {})
                 \cup (IF newRow # row0 THEN {"lcd.setCursor"} ELSE {})]

\* mutant: the two targets swapped
MainMenuTarget_Swapped(row) == IF row = 0 THEN "MANUAL_MENU" ELSE "AUTO_MENU"

\* handleMainMenu(): row 0 -> STATE_AUTO_MENU, else STATE_MANUAL_MENU
MainMenuTarget(row) == IF row = 0 THEN "AUTO_MENU" ELSE "MANUAL_MENU"

handleMainMenu ==
    /\ pc = "loop"
    /\ gState = "MAIN_MENU"
    /\ \E count \in Counts(2), level \in Levels :
         LET s == MenuStep(mainMenu, <<"1. Automatic Mode", "2. Manual Mode">>, count)
             edge == buttonPressedEdge(last, level)
         IN /\ gLastEncCount' = count
            /\ last' = Pressed(level)
            /\ mainMenu' = [initialized |-> ~edge, row |-> s.row]
            /\ lcd' = IF edge THEN lcdNoBlink(s.lcd) ELSE s.lcd
            /\ gState' = IF edge THEN MainMenuTarget(s.row) ELSE gState
            /\ obs' = [NoObs EXCEPT
                          !.cmds = s.cmds \cup (IF edge THEN {"lcd.noBlink"} ELSE {})]
            /\ hist' = IF edge /\ MainMenuTarget(s.row) = "AUTO_MENU"
                       THEN [hist EXCEPT !.auto = TRUE] ELSE hist
    /\ UNCHANGED <<unit, autoMenu, manualMenu, autoVars, jogVars, motorVars, servo, pc>>

(* ------------------------------ homing -------------------------------- *)

\* the seek loops' condition: while (digitalRead(LIMIT_*) == LOW)
SeekLoopCondition(level) == level = "LOW"

\* the back-off loops' conditions
XBackoffLoopCondition(m1, m2) == distanceToGo(m1) # 0 \/ distanceToGo(m2) # 0

\* mutant: the loop tests the wrong sign and never runs
YBackoffLoopCondition_WrongSign(m) == distanceToGo(m) < 0

YBackoffLoopCondition(m) == distanceToGo(m) # 0

\* fsmUpdate(), case STATE_AUTO_MENU: autoHome() is called, up to its first loop
autoHomeBegin ==
    /\ pc = "loop"
    /\ gState = "AUTO_MENU"
    /\ lcd' = lcdPrintLine(lcdClear(lcd), 0, "Homing...")
    /\ pc' = "seekY"
    /\ obs' = [NoObs EXCEPT !.cmds = {"lcd.clear", "lcd.print", "Y.setSpeed"}]
    /\ hist' = [hist EXCEPT !.homeRuns = Min(hist.homeRuns + 1, MaxHomeRuns),
                            !.sawLow = {}]
    /\ UNCHANGED <<unit, gState, gLastEncCount, last, menuVars, autoVars, jogVars,
                   motorVars, servo>>

\* one test of while (digitalRead(LIMIT_Y) == LOW), and the loop body
autoHomeSeekY ==
    /\ pc = "seekY"
    /\ \E level \in Levels :
         /\ motorY' = IF SeekLoopCondition(level)
                      THEN runSpeed(motorY, Y_SEEK_SPEED) ELSE motorY
         /\ pc' = IF SeekLoopCondition(level) THEN "seekY" ELSE "seekX"
         /\ obs' = [NoObs EXCEPT !.limit = level,
                       !.cmds = IF SeekLoopCondition(level) THEN {"Y.runSpeed"}
                                ELSE {"X.setSpeed"}]
         /\ hist' = IF level = "LOW"
                    THEN [hist EXCEPT !.sawLow = @ \cup {"Y"}] ELSE hist
    /\ UNCHANGED <<unit, gState, gLastEncCount, last, menuVars, autoVars, jogVars,
                   motorX1, motorX2, servo, lcd>>

\* one test of while (digitalRead(LIMIT_X) == LOW), and the loop body; on
\* exit the three positions are zeroed and the X back-off is commanded
autoHomeSeekX ==
    /\ pc = "seekX"
    /\ \E level \in Levels :
         /\ IF SeekLoopCondition(level)
            THEN /\ motorX1' = runSpeed(motorX1, X_SEEK_SPEED)
                 /\ motorX2' = runSpeed(motorX2, X_SEEK_SPEED)
                 /\ motorY' = motorY
                 /\ pc' = "seekX"
            ELSE /\ motorX1' = move(setCurrentPosition(motorX1, 0), X_BACKOFF)
                 /\ motorX2' = move(setCurrentPosition(motorX2, 0), X_BACKOFF)
                 /\ motorY' = setCurrentPosition(motorY, 0)
                 /\ pc' = "backoffX"
         /\ obs' = [NoObs EXCEPT !.limit = level,
                       !.cmds = IF SeekLoopCondition(level) THEN {"X.runSpeed"}
                                ELSE {"setCurrentPosition", "X.move"}]
         /\ hist' = IF level = "LOW"
                    THEN [hist EXCEPT !.sawLow = @ \cup {"X"}] ELSE hist
    /\ UNCHANGED <<unit, gState, gLastEncCount, last, menuVars, autoVars, jogVars,
                   servo, lcd>>

\* one test of the X back-off loop, and the loop body; on exit the Y
\* back-off is commanded
autoHomeBackoffX ==
    /\ pc = "backoffX"
    /\ IF XBackoffLoopCondition(motorX1, motorX2)
       THEN /\ motorX1' = run(motorX1)
            /\ motorX2' = run(motorX2)
            /\ motorY' = motorY
            /\ pc' = "backoffX"
            /\ obs' = NoObs
       ELSE /\ motorY' = move(motorY, Y_BACKOFF)
            /\ UNCHANGED <<motorX1, motorX2>>
            /\ pc' = "backoffY"
            /\ obs' = [NoObs EXCEPT !.cmds = {"Y.move"}]
    /\ UNCHANGED <<unit, gState, gLastEncCount, last, menuVars, autoVars, jogVars,
                   servo, lcd, hist>>

\* one test of the Y back-off loop, and the loop body; on exit autoHome()
\* prints "Homing complete" and returns
autoHomeBackoffY ==
    /\ pc = "backoffY"
    /\ IF YBackoffLoopCondition(motorY)
       THEN /\ motorY' = run(motorY)
            /\ pc' = "backoffY"
            /\ obs' = NoObs
            /\ UNCHANGED <<lcd, hist>>
       ELSE /\ motorY' = motorY
            /\ lcd' = lcdPrintLine(lcd, 0, "Homing complete")
            /\ pc' = "handleAutoMenu"
            /\ obs' = [NoObs EXCEPT !.cmds = {"lcd.print"}]
            /\ hist' = [hist EXCEPT !.homed = TRUE]
    /\ UNCHANGED <<unit, gState, gLastEncCount, last, menuVars, autoVars, jogVars,
                   motorX1, motorX2, servo>>

\* handleAutoMenu(): row 0 -> STATE_AUTO_RUN, else STATE_MAIN_MENU
AutoMenuTarget(row) == IF row = 0 THEN "AUTO_RUN" ELSE "MAIN_MENU"

\* fsmUpdate(), case STATE_AUTO_MENU, after autoHome() has returned
handleAutoMenu ==
    /\ pc = "handleAutoMenu"
    /\ \E count \in Counts(2), level \in Levels :
         LET s == MenuStep(autoMenu, <<"1. Start", "2. Go Back">>, count)
             edge == buttonPressedEdge(last, level)
         IN /\ gLastEncCount' = count
            /\ last' = Pressed(level)
            /\ autoMenu' = [initialized |-> ~edge, row |-> s.row]
            /\ lcd' = IF edge THEN lcdNoBlink(s.lcd) ELSE s.lcd
            /\ gState' = IF edge THEN AutoMenuTarget(s.row) ELSE gState
            /\ obs' = [NoObs EXCEPT
                          !.cmds = s.cmds \cup (IF edge THEN {"lcd.noBlink"} ELSE {})]
            /\ hist' = IF edge
                       THEN [hist EXCEPT !.homeRuns = 0,
                               !.homed = IF AutoMenuTarget(s.row) = "MAIN_MENU"
                                         THEN FALSE ELSE @]
                       ELSE hist
    /\ pc' = "loop"
    /\ UNCHANGED <<unit, mainMenu, manualMenu, autoVars, jogVars, motorVars, servo>>

(* ----------------------- automatic-run sequencer ---------------------- *)

\* long yTarget = (long)((yIndex + 1) * Y_MOVE)
yTarget(y) == ((y + 1) * Y_MOVE_TENTHS) \div 10

\* AUTO_MOVE_X: if (xIndex >= AUTO_NUM_X) the run is complete
GridComplete(x) == x >= AUTO_NUM_X

\* mutant: off by one, > for >=
ColumnComplete_OffByOne(y) == y > AUTO_NUM_Y

\* AUTO_MOVE_Y: if (yIndex >= AUTO_NUM_Y) the column is finished
ColumnComplete(y) == y >= AUTO_NUM_Y

\* AUTO_WAIT_X: both X motors are at their target
XArrived(m1, m2) == distanceToGo(m1) = 0 /\ distanceToGo(m2) = 0

\* AUTO_WAIT_Y: the Y motor is at its target
YArrived(m) == distanceToGo(m) = 0

\* AUTO_DECISION_MENU: the two row ifs (0..2, no wrap-around)
DecisionRow(row, delta) ==
    LET r1 == IF delta > 0 /\ row < 2 THEN row + 1 ELSE row
    IN IF delta < 0 /\ r1 > 0 THEN r1 - 1 ELSE r1

\* mutant: Continue skips a row
ContinueCell_SkipsRow(x, y) == <<x, y + 2>>

\* OPTION 1, Continue: the next cell
ContinueCell(x, y) == <<x, y + 1>>

\* mutant: no wrap to the previous column
BackCell_NoWrap(x, y) == IF y > 0 THEN <<x, y - 1>> ELSE <<x, y>>

\* OPTION 2, Back: the previous cell, or the last cell of the previous column
BackCell(x, y) ==
    IF y > 0 THEN <<x, y - 1>>
    ELSE IF x > 0 THEN <<x - 1, AUTO_NUM_Y - 1>>
    ELSE <<x, y>>

\* the place of a cell in the column-major traversal
CellIndex(x, y) == x * AUTO_NUM_Y + y

\* the decision executed on a button edge: menuRow 0, 1, 2
DecisionChoice(row) ==
    CASE row = 0 -> "continue" [] row = 1 -> "back" [] row = 2 -> "exit"
      [] OTHER -> ""

\* mutant: Exit leaves autoState as it is
DecisionNext_ExitKeepsPhase(choice) ==
    CASE choice = "continue" -> "AUTO_MOVE_Y"
      [] choice = "back" -> "AUTO_MOVE_Y"
      [] OTHER -> "AUTO_DECISION_MENU"

\* the AutoState the decision menu leaves to
DecisionNext(choice) ==
    CASE choice = "continue" -> "AUTO_MOVE_Y"
      [] choice = "back" -> "AUTO_MOVE_Y"
      [] choice = "exit" -> "AUTO_IDLE"
      [] OTHER -> "AUTO_DECISION_MENU"

\* mutant: the decision menu is skipped
AfterWaitY_SkipsMenu == "AUTO_MOVE_Y"

\* the AutoState AUTO_WAIT_Y leaves to when the Y motor has arrived
AfterWaitY == "AUTO_DECISION_MENU"

\* the entry block, if (autoState == AUTO_IDLE): the state the switch sees
AutoEntry ==
    IF autoState = "AUTO_IDLE"
    THEN [state |-> "AUTO_MOVE_X", x |-> 0, y |-> 0,
          lcd |-> lcdPrintLine(lcdClear(lcd), 0, "Starting Auto Mode"),
          cmds |-> {"X.setSpeed", "Y.setSpeed", "lcd.clear", "lcd.print"},
          hist |-> [hist EXCEPT !.visited = <<>>, !.allCont = TRUE, !.crossBacks = 0]]
    ELSE [state |-> autoState, x |-> xIndex, y |-> yIndex, lcd |-> lcd,
          cmds |-> {}, hist |-> hist]

\* case AUTO_MOVE_X
AutoMoveX(e) ==
    /\ e.state = "AUTO_MOVE_X"
    /\ IF GridComplete(e.x)
       THEN /\ lcd' = lcdPrintLine(lcdClear(e.lcd), 0, "Auto Complete")
            /\ autoState' = "AUTO_IDLE"
            /\ gState' = "MAIN_MENU"
            /\ UNCHANGED <<motorX1, motorX2>>
            /\ obs' = [NoObs EXCEPT !.cmds = e.cmds \cup {"lcd.clear", "lcd.print"},
                                    !.choice = "complete"]
            /\ hist' = [e.hist EXCEPT !.homed = FALSE]
       ELSE /\ motorX1' = move(motorX1, X_COLUMN_MOVE)
            /\ motorX2' = move(motorX2, X_COLUMN_MOVE)
            /\ autoState' = "AUTO_WAIT_X"
            /\ lcd' = e.lcd
            /\ obs' = [NoObs EXCEPT !.cmds = e.cmds \cup {"X.move"}]
            /\ hist' = e.hist
            /\ UNCHANGED gState
    /\ xIndex' = e.x
    /\ yIndex' = e.y
    /\ UNCHANGED <<unit, gLastEncCount, last, menuVars, menuRow, lastEnc, jogVars,
                   motorY, servo, pc>>

\* case AUTO_WAIT_X
AutoWaitX(e) ==
    /\ e.state = "AUTO_WAIT_X"
    /\ motorX1' = run(motorX1)
    /\ motorX2' = run(motorX2)
    /\ IF XArrived(run(motorX1), run(motorX2))
       THEN yIndex' = 0 /\ autoState' = "AUTO_MOVE_Y"
       ELSE yIndex' = e.y /\ autoState' = e.state
    /\ obs' = NoObs
    /\ UNCHANGED <<unit, gState, gLastEncCount, last, menuVars, xIndex, menuRow, lastEnc,
                   jogVars, motorY, servo, lcd, pc, hist>>

\* case AUTO_MOVE_Y
AutoMoveY(e) ==
    /\ e.state = "AUTO_MOVE_Y"
    /\ IF ColumnComplete(e.y)
       THEN /\ xIndex' = e.x + 1
            /\ autoState' = "AUTO_MOVE_X"
            /\ obs' = NoObs
            /\ UNCHANGED <<motorY, lcd>>
       ELSE /\ lcd' = lcdPrintLine(lcdPrintLine(lcdClear(lcd), 0, "Moving to Position"),
                                   1, "X=" \o IntStr(e.x) \o " Y=" \o IntStr(e.y))
            /\ motorY' = moveTo(motorY, yTarget(e.y))
            /\ autoState' = "AUTO_WAIT_Y"
            /\ obs' = [NoObs EXCEPT !.cmds = {"lcd.clear", "lcd.print", "Y.moveTo"}]
            /\ UNCHANGED xIndex
    /\ UNCHANGED <<unit, gState, gLastEncCount, last, menuVars, yIndex, menuRow, lastEnc,
                   jogVars, motorX1, motorX2, servo, pc, hist>>

\* the display after AUTO_WAIT_Y has shown the decision menu
DecisionMenuLcd(l) ==
    lcdBlink(lcdSetCursor(
        lcdPrintLine(lcdPrintLine(lcdPrintLine(
            lcdClear(lcdPrintLine(lcdClear(l), 0, "Lowering Probe...")),
            0, "1. Continue"), 1, "2. Back"), 2, "3. Exit"), 0, 0))

\* case AUTO_WAIT_Y
AutoWaitY(e, count) ==
    /\ e.state = "AUTO_WAIT_Y"
    /\ motorY' = run(motorY)
    /\ IF YArrived(run(motorY))
       THEN /\ servo' = <<PROBE_DOWN>>
            /\ lcd' = DecisionMenuLcd(lcd)
            /\ menuRow' = 0
            /\ lastEnc' = count
            /\ autoState' = AfterWaitY
            /\ obs' = [NoObs EXCEPT !.cmds = {"lcd.clear", "lcd.print", "lcd.setCursor",
                                             "lcd.blink", "servo.write"}]
            /\ hist' = IF hist.allCont /\ AfterWaitY = "AUTO_DECISION_MENU"
                       THEN [hist EXCEPT !.visited = Append(@, <<e.x, e.y>>)]
                       ELSE hist
       ELSE /\ UNCHANGED <<servo, lcd, menuRow, lastEnc, autoState, hist>>
            /\ obs' = NoObs
    /\ UNCHANGED <<unit, gState, gLastEncCount, last, menuVars, xIndex, yIndex, jogVars,
                   motorX1, motorX2, pc>>

\* case AUTO_DECISION_MENU
AutoDecisionMenu(e, count, level) ==
    /\ e.state = "AUTO_DECISION_MENU"
    /\ LET delta == count - lastEnc
           row == DecisionRow(menuRow, delta)
           edge == buttonPressedEdge(last, level)
           choice == IF edge THEN DecisionChoice(row) ELSE ""
           cell == CASE choice = "continue" -> ContinueCell(e.x, e.y)
                     [] choice = "back" -> BackCell(e.x, e.y)
                     [] OTHER -> <<e.x, e.y>>
           crossing == choice = "back" /\ cell[1] # e.x
       IN /\ crossing => hist.crossBacks < MaxCrossBack
          /\ choice = "exit" => CellIndex(e.x, e.y) < MaxExitCell
          /\ choice = "continue" /\ hist.jogged
                => CellIndex(e.x, e.y) + 1 < MaxExitCell
          /\ menuRow' = row
          /\ lastEnc' = count
          /\ last' = Pressed(level)
          /\ lcd' = IF edge THEN lcdNoBlink(lcdSetCursor(lcd, 0, row))
                    ELSE lcdSetCursor(lcd, 0, row)
          /\ servo' = IF choice # "" THEN <<PROBE_UP>> ELSE servo
          /\ xIndex' = cell[1]
          /\ yIndex' = cell[2]
          /\ autoState' = DecisionNext(choice)
          /\ gState' = IF choice = "exit" THEN "MAIN_MENU" ELSE gState
          /\ obs' = [NoObs EXCEPT !.choice = choice,
                        !.cmds = {"lcd.setCursor"}
                                 \cup (IF edge THEN {"lcd.noBlink"} ELSE {})
                                 \cup (IF choice # "" THEN {"servo.write"} ELSE {})]
          /\ hist' = CASE choice = "back" ->
                            [hist EXCEPT !.allCont = FALSE, !.visited = <<>>,
                                         !.crossBacks = IF crossing THEN @ + 1 ELSE @]
                       [] choice = "exit" ->
                            [hist EXCEPT !.allCont = FALSE, !.visited = <<>>,
                                         !.homed = FALSE]
                       [] OTHER -> hist
    /\ UNCHANGED <<unit, gLastEncCount, menuVars, jogVars, motorVars, pc>>

\* fsmUpdate(), case STATE_AUTO_RUN
handleAutoRun ==
    /\ pc = "loop"
    /\ gState = "AUTO_RUN"
    /\ CASE AutoEntry.state = "AUTO_MOVE_X" -> AutoMoveX(AutoEntry)
         [] AutoEntry.state = "AUTO_WAIT_X" -> AutoWaitX(AutoEntry)
         [] AutoEntry.state = "AUTO_MOVE_Y" -> AutoMoveY(AutoEntry)
         [] AutoEntry.state = "AUTO_WAIT_Y" ->
              \E count \in Counts(3) : AutoWaitY(AutoEntry, count)
         [] AutoEntry.state = "AUTO_DECISION_MENU" ->
              \E count \in Counts(3), level \in Levels :
                  AutoDecisionMenu(AutoEntry, count, level)

(* ------------------------- manual menu and jog ------------------------ *)

\* handleManualMenu(): switch (row)
ManualMenuTarget(row) ==
    CASE row = 0 -> "JOG_X" [] row = 1 -> "JOG_Y" [] row = 2 -> "JOG_Z"
      [] row = 3 -> "MAIN_MENU" [] OTHER -> "MANUAL_MENU"

\* fsmUpdate(), case STATE_MANUAL_MENU
handleManualMenu ==
    /\ pc = "loop"
    /\ gState = "MANUAL_MENU"
    /\ \E count \in Counts(4), level \in Levels :
         LET s == MenuStep(manualMenu,
                           <<"1. X-Axis", "2. Y-Axis", "3. Z-Axis", "4. Go Back">>,
                           count)
             edge == buttonPressedEdge(last, level)
             jog == edge /\ ManualMenuTarget(s.row) \in {"JOG_X", "JOG_Y", "JOG_Z"}
         IN /\ jog => ~hist.auto
            /\ gLastEncCount' = count
            /\ last' = Pressed(level)
            /\ manualMenu' = [initialized |-> ~edge, row |-> s.row]
            /\ lcd' = IF edge THEN lcdNoBlink(s.lcd) ELSE s.lcd
            /\ gState' = IF edge THEN ManualMenuTarget(s.row) ELSE gState
            /\ obs' = [NoObs EXCEPT
                          !.cmds = s.cmds \cup (IF edge THEN {"lcd.noBlink"} ELSE {})]
            /\ hist' = IF jog THEN [hist EXCEPT !.jogged = TRUE] ELSE hist
    /\ UNCHANGED <<unit, mainMenu, autoMenu, autoVars, jogVars, motorVars, servo, pc>>

\* mutant: the target is set from the last delta alone
JogTarget_NoAccumulate(targetPos, delta, step) == delta * step

\* targetPos += delta * JOG_STEP
JogTarget(targetPos, delta, step) == targetPos + delta * step

\* mutant: no constrain()
JogAngle_NoClamp(angle, delta) == angle + delta

\* mutant: constrain() keeps the upper limit only
JogAngle_NoLowerLimit(angle, delta) == Min(Z_MAX, angle + delta)

\* angle += (int)delta; angle = constrain(angle, 0, 180)
JogAngle(angle, delta) == Max(Z_MIN, Min(Z_MAX, angle + delta))

\* the seed of a jog session: targetPos = motor.currentPosition()
JogSeed(m) == currentPosition(m)

\* the state a jog handler leaves to on a button edge
JogExit == "MANUAL_MENU"

\* the display a jog handler shows on entry
JogLcd(l, lines) ==
    IF Len(lines) = 3
    THEN lcdPrintLine(lcdPrintLine(lcdPrintLine(lcdClear(l), 0, lines[1]), 1, lines[2]),
                      2, lines[3])
    ELSE lcdPrintLine(lcdPrintLine(lcdClear(l), 0, lines[1]), 1, lines[2])

\* the encoder delta a jog handler computes: zero on the entry call, which
\* takes the count it reads as its baseline
JogDelta(initialized, base, count) == count - (IF initialized THEN base ELSE count)

\* the session history a jog handler call leaves: seed, base = the reported
\* position (for Z: the angle accumulator) and the encoder count when the
\* session was entered; sat = an unclamped Z sum of the session has left
\* Z_MIN..Z_MAX; all three are dropped when the session ends
JogHist(initialized, pos, count, delta, edge, isZ) ==
    LET seed == IF initialized THEN hist.jogSeed ELSE pos
        base == IF initialized THEN hist.jogBase ELSE count
        sat == (initialized /\ hist.jogSat)
               \/ (isZ /\ seed + (count - base) \notin Z_MIN..Z_MAX)
    IN [hist EXCEPT !.jogMoves = IF delta # 0 THEN @ + 1 ELSE @,
                    !.jogSeed = IF edge THEN 0 ELSE seed,
                    !.jogBase = IF edge THEN 0 ELSE base,
                    !.jogSat = IF edge THEN FALSE ELSE sat]

\* handleJogX() called with the encoder at one of counts; the operator makes
\* at most moves jog steps
handleJogXOn(counts, moves) ==
    /\ pc = "loop"
    /\ gState = "JOG_X"
    /\ \E count \in counts, level \in Levels :
         LET init == ~jogX.initialized
             seed == IF init THEN JogSeed(motorX1) ELSE jogX.targetPos
             delta == JogDelta(jogX.initialized, gLastEncCount, count)
             target == IF delta # 0 THEN JogTarget(seed, delta, JOG_STEP_X) ELSE seed
             edge == buttonPressedEdge(last, level)
         IN /\ delta # 0 => hist.jogMoves < moves
            /\ gLastEncCount' = count
            /\ last' = Pressed(level)
            /\ jogX' = [initialized |-> ~edge, targetPos |-> target]
            /\ motorX1' = run(IF delta # 0 THEN moveTo(motorX1, target) ELSE motorX1)
            /\ motorX2' = run(IF delta # 0 THEN moveTo(motorX2, target) ELSE motorX2)
            /\ lcd' = IF init THEN JogLcd(lcd, <<"Jog X (enc)", "Button = Back">>) ELSE lcd
            /\ gState' = IF edge THEN JogExit ELSE gState
            /\ obs' = [NoObs EXCEPT
                          !.cmds = (IF init THEN {"lcd.clear", "lcd.print"} ELSE {})
                                   \cup (IF delta # 0 THEN {"X.moveTo"} ELSE {})]
            /\ hist' = JogHist(jogX.initialized, currentPosition(motorX1), count,
                               delta, edge, FALSE)
    /\ UNCHANGED <<unit, menuVars, autoVars, jogY, jogZ, motorY, servo, pc>>

\* fsmUpdate(), case STATE_JOG_X
handleJogX == handleJogXOn(Counts(2), MaxJogMoves)

\* handleJogY() called with the encoder at one of counts
handleJogYOn(counts, moves) ==
    /\ pc = "loop"
    /\ gState = "JOG_Y"
    /\ \E count \in counts, level \in Levels :
         LET init == ~jogY.initialized
             seed == IF init THEN JogSeed(motorY) ELSE jogY.targetPos
             delta == JogDelta(jogY.initialized, gLastEncCount, count)
             target == IF delta # 0 THEN JogTarget(seed, delta, JOG_STEP_Y) ELSE seed
             edge == buttonPressedEdge(last, level)
         IN /\ delta # 0 => hist.jogMoves < moves
            /\ gLastEncCount' = count
            /\ last' = Pressed(level)
            /\ jogY' = [initialized |-> ~edge, targetPos |-> target]
            /\ motorY' = run(IF delta # 0 THEN moveTo(motorY, target) ELSE motorY)
            /\ lcd' = IF init THEN JogLcd(lcd, <<"Jog Y (enc)", "Button = Back">>) ELSE lcd
            /\ gState' = IF edge THEN JogExit ELSE gState
            /\ obs' = [NoObs EXCEPT
                          !.cmds = (IF init THEN {"lcd.clear", "lcd.print"} ELSE {})
                                   \cup (IF delta # 0 THEN {"Y.moveTo"} ELSE {})]
            /\ hist' = JogHist(jogY.initialized, currentPosition(motorY), count,
                               delta, edge, FALSE)
    /\ UNCHANGED <<unit, menuVars, autoVars, jogX, jogZ, motorX1, motorX2, servo, pc>>

\* fsmUpdate(), case STATE_JOG_Y
handleJogY == handleJogYOn(Counts(2), MaxJogMoves)

\* handleJogZ() called with the encoder at one of counts
handleJogZOn(counts, moves) ==
    /\ pc = "loop"
    /\ gState = "JOG_Z"
    /\ \E count \in counts, level \in Levels :
         LET init == ~jogZ.initialized
             delta == JogDelta(jogZ.initialized, jogZ.lastCount, count)
             angle == IF delta # 0 THEN JogAngle(jogZ.angle, delta) ELSE jogZ.angle
             edge == buttonPressedEdge(last, level)
         IN /\ delta # 0 => hist.jogMoves < moves
            /\ last' = Pressed(level)
            /\ jogZ' = [initialized |-> ~edge, lastCount |-> count, angle |-> angle]
            /\ servo' = IF delta # 0 THEN <<angle>> ELSE servo
            /\ lcd' = IF init
                      THEN JogLcd(lcd, <<"Jog Z (Servo)", "Rotate encoder", "Button = Back">>)
                      ELSE lcd
            /\ gState' = IF edge THEN JogExit ELSE gState
            /\ obs' = [NoObs EXCEPT
                          !.cmds = (IF init THEN {"lcd.clear", "lcd.print"} ELSE {})
                                   \cup (IF delta # 0 THEN {"servo.write"} ELSE {})]
            /\ hist' = JogHist(jogZ.initialized, jogZ.angle, count, delta, edge, TRUE)
    /\ UNCHANGED <<unit, gLastEncCount, menuVars, autoVars, jogX, jogY, motorVars, pc>>

\* the counts the encoder is read at in JogZ: at rest, and turned by the
\* detents that take the servo from neutral to the lowered probe angle
JogZCounts == {0, PROBE_DOWN - Z_NEUTRAL}

\* fsmUpdate(), case STATE_JOG_Z
handleJogZ == handleJogZOn(JogZCounts, MaxJogMoves)

Next ==
    \/ handleMainMenu
    \/ autoHomeBegin
    \/ autoHomeSeekY
    \/ autoHomeSeekX
    \/ autoHomeBackoffX
    \/ autoHomeBackoffY
    \/ handleAutoMenu
    \/ handleAutoRun
    \/ handleManualMenu
    \/ handleJogX
    \/ handleJogY
    \/ handleJogZ

Spec == Init /\ [][Next]_vars

(* ----------------------- manual mode on its own ---------------------- *)
(* The operator stays in manual mode and turns the encoder further than   *)
(* in Spec: several detents per call, and for Z past both constrain()     *)
(* limits.                                                                 *)

JogWindow == {0, 1, JogReach}

JogWindowZ == {-JogReachZ, 0, 1, JogReachZ}

\* handleMainMenu(), the operator not choosing the automatic mode
JogMainMenu == handleMainMenu /\ gState' # "AUTO_MENU"

\* handleManualMenu(), the operator jogging one axis only: a jog state is
\* entered while the other axes are as they were at power-up, and the main
\* menu is not returned to after a jog session
JogManualMenu ==
    /\ handleManualMenu
    /\ gState' = "JOG_X" => motorY = NewMotor /\ servo = <<>>
    /\ gState' = "JOG_Y" => motorX1 = NewMotor /\ servo = <<>>
    /\ gState' = "JOG_Z" => motorX1 = NewMotor /\ motorY = NewMotor
    /\ gState' = "MAIN_MENU" => ~hist.jogged

JogSessionX == handleJogXOn(JogWindow, MaxSessionMoves)

JogSessionY == handleJogYOn(JogWindow, MaxSessionMoves)

JogSessionZ == handleJogZOn(JogWindowZ, MaxSessionMoves)

JogNext ==
    \/ JogMainMenu
    \/ JogManualMenu
    \/ JogSessionX
    \/ JogSessionY
    \/ JogSessionZ

JogSpec == Init /\ [][JogNext]_vars

(* ------------------- the pure functions on their own ------------------ *)
(* buttonPressedEdge() is fed every sequence of up to MaxSamples samples;  *)
(* the row selectors are applied to every row of every menu length.        *)

UnitInit ==
    /\ InitState
    /\ unit \in
          {[NoUnit EXCEPT !.fn = "buttonPressedEdge"]}
          \cup {[NoUnit EXCEPT !.fn = "updateMenuRow", !.row = r, !.maxRows = n, !.delta = d] :
                   r \in 0..(MaxUnitRows - 1), n \in 1..MaxUnitRows,
                   d \in (-MaxUnitDelta)..MaxUnitDelta}
          \cup {[NoUnit EXCEPT !.fn = "DecisionRow", !.row = r, !.maxRows = 3, !.delta = d] :
                   r \in 0..2, d \in (-MaxUnitDelta)..MaxUnitDelta}
    /\ unit.row < unit.maxRows \/ unit.fn = "buttonPressedEdge"

\* one call of buttonPressedEdge(): the button is sampled, last is updated
UnitButtonPressedEdge ==
    /\ unit.fn = "buttonPressedEdge"
    /\ Len(unit.samples) < MaxSamples
    /\ \E level \in Levels :
         /\ last' = Pressed(level)
         /\ unit' = [unit EXCEPT !.samples = Append(@, level),
                                 !.edges = Append(@, buttonPressedEdge(last, level))]
    /\ UNCHANGED <<gState, gLastEncCount, menuVars, autoVars, jogVars, motorVars,
                   servo, lcd, pc, obs, hist>>

\* one call of updateMenuRow() with the delta it computed
UnitUpdateMenuRow ==
    /\ unit.fn = "updateMenuRow" /\ ~unit.done
    /\ unit' = [unit EXCEPT !.done = TRUE,
                            !.result = updateMenuRow(unit.row, unit.maxRows, unit.delta)]
    /\ UNCHANGED <<gState, gLastEncCount, last, menuVars, autoVars, jogVars,
                   motorVars, servo, lcd, pc, obs, hist>>

\* one row selection of the decision menu
UnitDecisionRow ==
    /\ unit.fn = "DecisionRow" /\ ~unit.done
    /\ unit' = [unit EXCEPT !.done = TRUE, !.result = DecisionRow(unit.row, unit.delta)]
    /\ UNCHANGED <<gState, gLastEncCount, last, menuVars, autoVars, jogVars,
                   motorVars, servo, lcd, pc, obs, hist>>

UnitNext ==
    \/ UnitButtonPressedEdge
    \/ UnitUpdateMenuRow
    \/ UnitDecisionRow

UnitSpec == UnitInit /\ [][UnitNext]_vars

(* ============================== claims ================================ *)

\* buttonPressedEdge() sampled the button in the step and saw a rising edge:
\* the previous sample was released and this one is pressed
RisingEdge == ~last /\ last'

JogStates == {"JOG_X", "JOG_Y", "JOG_Z"}

\* the cells in column-major order: (0,0)..(0,5),(1,0)..(1,5),(2,0)..(2,5)
ColumnMajor ==
    [i \in 1..(AUTO_NUM_X * AUTO_NUM_Y) |->
        <<(i - 1) \div AUTO_NUM_Y, (i - 1) % AUTO_NUM_Y>>]

MoveCommands == {"X.move", "X.moveTo", "Y.move", "Y.moveTo"}

\* C1: every change of Mode made by one step is one of the transitions of the
\* mode table, taken on the row the table names, and every change except
\* AutoRun -> MainMenu at the end of the grid happens in a step that observed
\* a button rising edge.
C1_ModeTransitions ==
    [][gState' # gState =>
        /\ \/ gState = "MAIN_MENU" /\ gState' = "AUTO_MENU" /\ mainMenu'.row = 0
           \/ gState = "MAIN_MENU" /\ gState' = "MANUAL_MENU" /\ mainMenu'.row = 1
           \/ gState = "AUTO_MENU" /\ gState' = "AUTO_RUN" /\ autoMenu'.row = 0
           \/ gState = "AUTO_MENU" /\ gState' = "MAIN_MENU" /\ autoMenu'.row = 1
           \/ gState = "AUTO_RUN" /\ gState' = "MAIN_MENU"
           \/ gState = "MANUAL_MENU" /\ gState' = "JOG_X" /\ manualMenu'.row = 0
           \/ gState = "MANUAL_MENU" /\ gState' = "JOG_Y" /\ manualMenu'.row = 1
           \/ gState = "MANUAL_MENU" /\ gState' = "JOG_Z" /\ manualMenu'.row = 2
           \/ gState = "MANUAL_MENU" /\ gState' = "MAIN_MENU" /\ manualMenu'.row = 3
           \/ gState \in JogStates /\ gState' = "MANUAL_MENU"
        /\ ~(gState = "AUTO_RUN" /\ xIndex' >= AUTO_NUM_X) => RisingEdge
    ]_vars

\* C1 witness: a run has gone MainMenu -> AutoMenu -> AutoRun and back to
\* MainMenu at the end of the grid.
C1_Witness ==
    gState = "MAIN_MENU" /\ xIndex = AUTO_NUM_X /\ autoState = "AUTO_IDLE"

\* C2: while every decision of a run is Continue, the cells at which the
\* decision menu is entered are a prefix of the column-major order, the cell
\* of an open decision menu is the last of them, and when the run signals
\* completion they are exactly the 18 cells and Mode is MainMenu.
C2_TraversalOrder ==
    hist.allCont =>
        /\ Len(hist.visited) <= Len(ColumnMajor)
        /\ hist.visited = SubSeq(ColumnMajor, 1, Len(hist.visited))
        /\ autoState = "AUTO_DECISION_MENU" =>
              /\ hist.visited # <<>>
              /\ hist.visited[Len(hist.visited)] = <<xIndex, yIndex>>
        /\ obs.choice = "complete" =>
              /\ hist.visited = ColumnMajor
              /\ gState = "MAIN_MENU"

\* C2 witness: a run in which every decision was Continue has signalled
\* completion.
C2_Witness == hist.allCont /\ obs.choice = "complete"

\* C3: Back at cell (x, y) moves the cursor to (x, y-1) when y > 0, to
\* (x-1, GRID_Y-1) when y = 0 and x > 0, and leaves (0,0) where it is; the
\* indices are never negative and the next phase is MoveY.
C3_Back ==
    /\ [](xIndex >= 0 /\ yIndex >= 0)
    /\ [][gState = "AUTO_RUN" /\ autoState = "AUTO_DECISION_MENU"
            /\ RisingEdge /\ menuRow' = 1 =>
            /\ autoState' = "AUTO_MOVE_Y"
            /\ yIndex > 0 => xIndex' = xIndex /\ yIndex' = yIndex - 1
            /\ yIndex = 0 /\ xIndex > 0 =>
                  xIndex' = xIndex - 1 /\ yIndex' = AUTO_NUM_Y - 1
            /\ yIndex = 0 /\ xIndex = 0 => xIndex' = 0 /\ yIndex' = 0
            /\ xIndex = 1 /\ yIndex = 0 => xIndex' = 0 /\ yIndex' = 5
       ]_vars

\* C3 witness: Back has just crossed from the first cell of a column to the
\* last cell of the column before it.
C3_Witness ==
    /\ obs.choice = "back" /\ hist.crossBacks = 1
    /\ xIndex = 0 /\ yIndex = AUTO_NUM_Y - 1 /\ autoState = "AUTO_MOVE_Y"

\* C4: once the Y driver has been commanded to a cell's target (WaitY or
\* DecisionMenu), no step issues an X or Y move command, and the cursor and
\* the phase pair {WaitY, DecisionMenu} are left only by a step taken in
\* DecisionMenu that observed a button rising edge.
C4_DecisionGate ==
    [][gState = "AUTO_RUN" /\ autoState \in {"AUTO_WAIT_Y", "AUTO_DECISION_MENU"} =>
        /\ obs'.cmds \cap MoveCommands = {}
        /\ autoState = "AUTO_WAIT_Y" =>
              autoState' \in {"AUTO_WAIT_Y", "AUTO_DECISION_MENU"}
        /\ (<<xIndex', yIndex'>> # <<xIndex, yIndex>>
              \/ autoState' \notin {"AUTO_WAIT_Y", "AUTO_DECISION_MENU"}) =>
              autoState = "AUTO_DECISION_MENU" /\ RisingEdge
    ]_vars

\* C4 witness: the operator has passed the gate of a cell with Continue.
C4_Witness ==
    obs.choice = "continue" /\ autoState = "AUTO_MOVE_Y" /\ yIndex = 2

\* the step is a call of handleMainMenu() after its entry call that computed
\* an encoder delta of +1
MainMenuDeltaPlusOne ==
    /\ gState = "MAIN_MENU" /\ mainMenu.initialized
    /\ gLastEncCount' - gLastEncCount = 1

\* C5 as stated: in MainMenu an encoder delta of +1 and a button edge make
\* Mode become AutoMenu.
C5_Original ==
    [][MainMenuDeltaPlusOne /\ RisingEdge => gState' = "AUTO_MENU"]_vars

\* C5 amended: in MainMenu an encoder delta of +1 highlights row 1 and a button
\* edge then makes Mode become ManualMenu; a button edge with row 0
\* highlighted makes Mode become AutoMenu, the next step starts homing, and
\* the handler call that follows the first homing renders the auto menu with
\* the cursor on row 0 (blinking unless that call takes the button edge).
C5_Amended ==
    [][/\ MainMenuDeltaPlusOne => mainMenu'.row = 1
       /\ gState = "MAIN_MENU" /\ RisingEdge =>
             gState' = (IF mainMenu'.row = 0 THEN "AUTO_MENU" ELSE "MANUAL_MENU")
       /\ gState = "AUTO_MENU" /\ pc = "loop" =>
             pc' = "seekY" /\ lcd'.rows[1] = "Homing..."
       /\ pc = "handleAutoMenu" /\ hist.homeRuns = 1 =>
             /\ lcd'.rows = <<"1. Start", "2. Go Back", "", "">>
             /\ autoMenu'.row = 0 /\ lcd'.row = 0 /\ lcd'.col = 0
             /\ lcd'.blink = ~RisingEdge
    ]_vars

\* C5 witness: Mode is AutoMenu, homing has run once and the auto menu is
\* shown with the blinking cursor on row 0.
C5_Witness ==
    /\ gState = "AUTO_MENU" /\ pc = "loop" /\ hist.homeRuns = 1
    /\ lcd.rows[1] = "1. Start" /\ lcd.row = 0 /\ lcd.blink /\ autoMenu.row = 0

\* C6: homing runs exactly once per entry into AutoMenu: autoHome() is not
\* called again while Mode stays AutoMenu.
C6_HomingOncePerEntry == hist.homeRuns <= 1

\* C7: whenever Mode is AutoRun, autoHome() has returned since Mode last was
\* MainMenu, and when autoHome() returns the three axes were zeroed and both
\* back-offs have run to zero remaining distance.
C7_HomedBeforeRun ==
    /\ gState = "AUTO_RUN" => hist.homed
    /\ pc = "handleAutoMenu" =>
          /\ hist.homed
          /\ currentPosition(motorX1) = X_BACKOFF /\ distanceToGo(motorX1) = 0
          /\ currentPosition(motorX2) = X_BACKOFF /\ distanceToGo(motorX2) = 0
          /\ currentPosition(motorY) = Y_BACKOFF /\ distanceToGo(motorY) = 0

\* C7 witness: an automatic run is under way after a homing run.
C7_Witness == gState = "AUTO_RUN" /\ autoState = "AUTO_WAIT_X" /\ hist.homed

\* C8: a homing seek drives the axis exactly when the limit input reads
\* not-triggered (HIGH) and stops when it reads triggered (LOW).
C8_SeekStopsOnTriggered ==
    /\ obs.limit = "HIGH" => obs.cmds \cap {"X.runSpeed", "Y.runSpeed"} # {}
    /\ obs.limit = "LOW" => obs.cmds \cap {"X.runSpeed", "Y.runSpeed"} = {}

\* C9: autoHome() returns, and Mode becomes AutoRun, only after each limit
\* switch has reported triggered (LOW) during that homing run.
C9_NoReturnWithoutTrigger ==
    (pc = "handleAutoMenu" \/ gState = "AUTO_RUN") => hist.sawLow = {"X", "Y"}

\* C10: whenever Mode is not AutoRun, AutoPhase is Idle; Mode becomes AutoRun
\* with AutoPhase Idle, and the step taken in AutoRun with AutoPhase Idle sets
\* the grid cursor to (0,0).
C10_FreshEntry ==
    /\ [](gState # "AUTO_RUN" => autoState = "AUTO_IDLE")
    /\ [][/\ gState # "AUTO_RUN" /\ gState' = "AUTO_RUN" => autoState' = "AUTO_IDLE"
          /\ gState = "AUTO_RUN" /\ autoState = "AUTO_IDLE" =>
                xIndex' = 0 /\ yIndex' = 0
       ]_vars

\* C10 witness: the first step of a second run has reset the cursor (the
\* probe was raised by a decision of an earlier run).
C10_Witness ==
    /\ gState = "AUTO_RUN" /\ autoState = "AUTO_WAIT_X"
    /\ xIndex = 0 /\ yIndex = 0
    /\ servo = <<PROBE_UP>> /\ ~hist.jogged

\* C11 as stated: between calls the cursor is inside the grid, 0 <= xIndex <
\* GRID_X and 0 <= yIndex < GRID_Y, the only exception being xIndex = GRID_X;
\* yIndex = GRID_Y is never seen while xIndex < GRID_X.
C11_Original ==
    pc = "loop" =>
        \/ xIndex \in 0..(AUTO_NUM_X - 1) /\ yIndex \in 0..(AUTO_NUM_Y - 1)
        \/ xIndex = AUTO_NUM_X

\* C11 amended: between calls 0 <= xIndex <= GRID_X and 0 <= yIndex <= GRID_Y;
\* yIndex = GRID_Y is the column-complete signal, seen only in the phases
\* MoveY, MoveX, WaitX and Idle (after Continue at the last row of a column,
\* until WaitX resets yIndex, and after the end of the grid); xIndex = GRID_X
\* is seen only in MoveX and Idle with yIndex = GRID_Y; in WaitY and
\* DecisionMenu, where a cell is targeted, both indices are inside the grid.
C11_Amended ==
    /\ xIndex \in 0..AUTO_NUM_X /\ yIndex \in 0..AUTO_NUM_Y
    /\ yIndex = AUTO_NUM_Y =>
          autoState \in {"AUTO_MOVE_Y", "AUTO_MOVE_X", "AUTO_WAIT_X", "AUTO_IDLE"}
    /\ xIndex = AUTO_NUM_X =>
          yIndex = AUTO_NUM_Y /\ autoState \in {"AUTO_MOVE_X", "AUTO_IDLE"}
    /\ autoState \in {"AUTO_WAIT_Y", "AUTO_DECISION_MENU"} =>
          xIndex < AUTO_NUM_X /\ yIndex < AUTO_NUM_Y

\* C11 witness: between two calls the X move to the second column is under
\* way and yIndex still holds GRID_Y.
C11_Witness ==
    /\ pc = "loop" /\ gState = "AUTO_RUN" /\ autoState = "AUTO_WAIT_X"
    /\ xIndex = 1 /\ yIndex = AUTO_NUM_Y

\* C12: over every sequence of button samples, buttonPressedEdge() returns
\* true on a sample exactly when that sample is pressed and it is the first
\* sample of its maximal run of pressed samples (the sample before it, if
\* any, is released); so it returns true once per run and false on every held
\* or released sample.
C12_OncePerPress ==
    /\ Len(unit.edges) = Len(unit.samples)
    /\ \A i \in 1..Len(unit.samples) :
          unit.edges[i] <=>
              /\ Pressed(unit.samples[i])
              /\ i = 1 \/ ~Pressed(unit.samples[i - 1])
    /\ Cardinality({i \in 1..Len(unit.edges) : unit.edges[i]})
          = Cardinality({i \in 1..Len(unit.samples) :
                            /\ Pressed(unit.samples[i])
                            /\ i = Len(unit.samples) \/ ~Pressed(unit.samples[i + 1])})

\* C12 witness: a press held for three samples, a release, and a second press
\* held for two: true on the first and on the fifth sample only.
C12_Witness ==
    /\ unit.samples = <<"LOW", "LOW", "LOW", "HIGH", "LOW", "LOW">>
    /\ unit.edges = <<TRUE, FALSE, FALSE, FALSE, TRUE, FALSE>>

\* C13: for every menu length >= 1, every row of it and every encoder delta,
\* the selected row is a row of the menu, at most one row from the current
\* one, not below it for delta > 0, not above it for delta < 0, equal to it
\* for delta = 0, and the ends do not wrap around; for updateMenuRow() (the
\* 2-row and 4-row menus) and for the 3-row decision menu.
C13_RowSelector ==
    unit.done =>
        /\ unit.result \in 0..(unit.maxRows - 1)
        /\ Abs(unit.result - unit.row) <= 1
        /\ unit.delta > 0 => unit.result >= unit.row
        /\ unit.delta < 0 => unit.result <= unit.row
        /\ unit.delta = 0 => unit.result = unit.row
        /\ unit.row = 0 /\ unit.delta < 0 => unit.result = 0
        /\ unit.row = unit.maxRows - 1 /\ unit.delta > 0 =>
              unit.result = unit.maxRows - 1

\* C13 witness: at the last row of the 4-row menu a positive delta leaves the
\* selection on the last row.
C13_Witness ==
    /\ unit.fn = "updateMenuRow" /\ unit.done /\ unit.maxRows = 4
    /\ unit.row = 3 /\ unit.delta = MaxUnitDelta /\ unit.result = 3

\* C14: in a JogX / JogY session entered at reported position P with the
\* encoder at count c0, every target commanded is P + S * (c - c0), c the
\* count just read, however the movement from c0 to c was split over the
\* calls; both X drivers are commanded the same target; a call that reads no
\* movement commands nothing.
C14_JogAccumulation ==
    [][/\ gState = "JOG_X" /\ "X.moveTo" \in obs'.cmds =>
             /\ jogX.initialized
             /\ motorX1'.target
                   = hist.jogSeed + JOG_STEP_X * (gLastEncCount' - hist.jogBase)
             /\ motorX2'.target = motorX1'.target
       /\ gState = "JOG_Y" /\ "Y.moveTo" \in obs'.cmds =>
             /\ jogY.initialized
             /\ motorY'.target
                   = hist.jogSeed + JOG_STEP_Y * (gLastEncCount' - hist.jogBase)
       /\ gState \in {"JOG_X", "JOG_Y"} /\ obs'.cmds \cap MoveCommands = {} =>
             /\ gLastEncCount' = gLastEncCount \/ ~(jogX.initialized \/ jogY.initialized)
             /\ motorX1'.target = motorX1.target /\ motorX2'.target = motorX2.target
             /\ motorY'.target = motorY.target
    ]_vars

\* C14 witness: a JogX session entered at position 0 with the encoder at 0
\* has commanded JogReach detents in two steps.
C14_Witness ==
    /\ gState = "JOG_X" /\ jogX.initialized /\ "X.moveTo" \in obs.cmds
    /\ hist.jogMoves = 2 /\ hist.jogSeed = 0 /\ hist.jogBase = 0
    /\ motorX1.target = JOG_STEP_X * JogReach /\ motorX2.target = motorX1.target

\* C15: every angle written to the servo, and the angle accumulator of
\* handleJogZ(), is within 0..180.
C15_AngleClamped ==
    /\ servo # <<>> => servo[1] \in Z_MIN..Z_MAX
    /\ jogZ.angle \in Z_MIN..Z_MAX

\* C15 witness: in a JogZ session the unclamped sum has passed 180 and the
\* servo was written 180.
C15_Witness ==
    /\ gState = "JOG_Z" /\ hist.jogSat /\ "servo.write" \in obs.cmds
    /\ hist.jogSeed + (jogZ.lastCount - hist.jogBase) > Z_MAX
    /\ servo = <<Z_MAX>>

\* C16 as stated: in a JogZ session started with the accumulator at 90,
\* whenever the unclamped sum 90 + d1 + ... + dk is within 0..180 the angle
\* written at step k is that sum.
C16_Original ==
    [][gState = "JOG_Z" /\ jogZ.initialized /\ "servo.write" \in obs'.cmds
         /\ hist.jogSeed = Z_NEUTRAL
         /\ Z_NEUTRAL + (jogZ'.lastCount - hist.jogBase) \in Z_MIN..Z_MAX =>
            servo' = <<Z_NEUTRAL + (jogZ'.lastCount - hist.jogBase)>>
    ]_vars

\* C16 amended: the angle written at step k is the accumulator before the
\* step plus dk, constrained to 0..180; in a session started at 90 it is the
\* unclamped sum 90 + d1 + ... + dk whenever that sum and every earlier
\* partial sum of the session are within 0..180.
C16_Amended ==
    [][gState = "JOG_Z" /\ jogZ.initialized /\ "servo.write" \in obs'.cmds =>
         /\ servo' = <<Max(Z_MIN, Min(Z_MAX,
                          jogZ.angle + (jogZ'.lastCount - jogZ.lastCount)))>>
         /\ (/\ hist.jogSeed = Z_NEUTRAL /\ ~hist.jogSat
             /\ Z_NEUTRAL + (jogZ'.lastCount - hist.jogBase) \in Z_MIN..Z_MAX) =>
                servo' = <<Z_NEUTRAL + (jogZ'.lastCount - hist.jogBase)>>
    ]_vars

\* C16 witness: a session started at 90 went JogReachZ detents up, past 180,
\* and came back to its entry count: the servo was written 180 - JogReachZ.
C16_Witness ==
    /\ gState = "JOG_Z" /\ jogZ.initialized /\ hist.jogSat
    /\ hist.jogSeed = Z_NEUTRAL /\ jogZ.lastCount = hist.jogBase
    /\ "servo.write" \in obs.cmds /\ servo = <<Z_MAX - JogReachZ>>

\* a call of fsmUpdate() begins in a settled state: the handler of the Mode
\* has made its entry call (in AutoRun: the decision menu is open) and no
\* motion is outstanding
Settled ==
    /\ pc = "loop"
    /\ XArrived(motorX1, motorX2) /\ YArrived(motorY)
    /\ CASE gState = "MAIN_MENU" -> mainMenu.initialized
         [] gState = "AUTO_MENU" -> autoMenu.initialized
         [] gState = "MANUAL_MENU" -> manualMenu.initialized
         [] gState = "AUTO_RUN" -> autoState = "AUTO_DECISION_MENU"
         [] gState = "JOG_X" -> jogX.initialized
         [] gState = "JOG_Y" -> jogY.initialized
         [] gState = "JOG_Z" -> jogZ.initialized
         [] OTHER -> FALSE

\* the step read no new input: the encoder at its baseline, the button as
\* last sampled
NoNewInput ==
    /\ gLastEncCount' = gLastEncCount /\ lastEnc' = lastEnc
    /\ jogZ'.lastCount = jogZ.lastCount
    /\ last' = last

\* C17: a call of fsmUpdate() that begins in a settled state of any Mode and
\* reads no new input issues no motor or servo command, clears and writes no
\* display row (it may place the caret), and leaves Mode, AutoPhase, the grid
\* cursor, the menu rows and the jog targets unchanged.
C17_Idempotent ==
    [][Settled /\ NoNewInput =>
         /\ obs'.cmds \subseteq {"lcd.setCursor"}
         /\ lcd'.rows = lcd.rows
         /\ servo' = servo
         /\ motorX1' = motorX1 /\ motorX2' = motorX2 /\ motorY' = motorY
         /\ UNCHANGED <<gState, autoState, xIndex, yIndex, menuRow>>
         /\ mainMenu'.row = mainMenu.row /\ autoMenu'.row = autoMenu.row
         /\ manualMenu'.row = manualMenu.row
         /\ jogX'.targetPos = jogX.targetPos /\ jogY'.targetPos = jogY.targetPos
         /\ jogZ'.angle = jogZ.angle
    ]_vars

\* C18: the entry call of a jog handler seeds the JogX / JogY target from
\* the driver's reported position and the JogZ angle accumulator to 90, on
\* every entry, and takes the count it reads as its baseline, so that it
\* commands nothing.
C18_FreshJogEntry ==
    [][/\ gState = "JOG_X" /\ ~jogX.initialized =>
             /\ jogX'.targetPos = currentPosition(motorX1)
             /\ "X.moveTo" \notin obs'.cmds
       /\ gState = "JOG_Y" /\ ~jogY.initialized =>
             /\ jogY'.targetPos = currentPosition(motorY)
             /\ "Y.moveTo" \notin obs'.cmds
       /\ gState = "JOG_Z" /\ ~jogZ.initialized =>
             /\ jogZ'.angle = Z_NEUTRAL
             /\ "servo.write" \notin obs'.cmds
    ]_vars

\* C19: whenever the decision menu is open at cell (xIndex, yIndex), the X
\* drivers' target is the back-off position plus (xIndex + 1) column moves
\* and the Y driver's target is (yIndex + 1) * Y_MOVE.
C19_XTracksColumn ==
    gState = "AUTO_RUN" /\ autoState = "AUTO_DECISION_MENU" =>
        /\ motorX1.target = X_BACKOFF + (xIndex + 1) * X_COLUMN_MOVE
        /\ motorX2.target = X_BACKOFF + (xIndex + 1) * X_COLUMN_MOVE
        /\ motorY.target = yTarget(yIndex)

\* C20: when a step in AutoRun commands an X or Y move, the angle last
\* written to the servo is not the lowered angle 135; in AutoRun the servo is
\* written 135 only by the step that opens the decision menu, with the Y
\* driver at its target, and every step that leaves the decision menu
\* writes 90.
C20_NoMoveWhileProbeDown ==
    [][gState = "AUTO_RUN" =>
         /\ obs'.cmds \cap MoveCommands # {} => servo # <<PROBE_DOWN>>
         /\ servo' = <<PROBE_DOWN>> /\ "servo.write" \in obs'.cmds =>
               /\ autoState = "AUTO_WAIT_Y" /\ autoState' = "AUTO_DECISION_MENU"
               /\ distanceToGo(motorY') = 0
         /\ autoState = "AUTO_DECISION_MENU" /\ autoState' # "AUTO_DECISION_MENU" =>
               servo' = <<PROBE_UP>>
    ]_vars

\* the step executed a decision of the decision menu
DecisionTaken == obs'.choice \in {"continue", "back", "exit"}

\* the step changed Mode on the button (the end of the grid changes it alone)
ModeChosen == gState' # gState /\ obs'.choice # "complete"

\* the step runs code that does not call buttonPressedEdge(): autoHome(),
\* and the phases of handleAutoRun() before the decision menu
NotSampling ==
    \/ pc \in {"seekY", "seekX", "backoffX", "backoffY"}
    \/ gState = "AUTO_MENU" /\ pc = "loop"
    \/ gState = "AUTO_RUN" /\ autoState # "AUTO_DECISION_MENU"

\* C21: a Mode change on the button or a decision menu choice happens only in
\* a step whose button sample is pressed and whose previous sample, by
\* whichever handler it was taken, was released; the sample state is kept
\* across Mode changes and by the code that does not sample, so while the
\* button is sampled pressed again and again at most the first of these
\* samples causes a transition, and the handler a press entered does
\* nothing on the button before a released sample.
C21_OnePressOneTransition ==
    [][/\ ModeChosen \/ DecisionTaken => RisingEdge
       /\ last /\ last' => ~ModeChosen /\ ~DecisionTaken
       /\ NotSampling => last' = last
       /\ gState = "MAIN_MENU" /\ gState' = "AUTO_MENU" => last'
       /\ pc = "handleAutoMenu" /\ last /\ hist.homeRuns = 1 =>
             gState' = "AUTO_MENU"
    ]_vars

\* C21 witness: the button that chose the automatic mode in the main menu is
\* still held: homing has run twice and the auto menu has sampled the button
\* pressed twice without selecting Start.
C21_Witness ==
    /\ gState = "AUTO_MENU" /\ pc = "loop" /\ last
    /\ autoMenu.initialized /\ autoMenu.row = 0 /\ hist.homeRuns = MaxHomeRuns

====
